---- MODULE Spec2Model ----
(***************************************************************************)
(* Model of staticfiles/dashboard/js/dashboard.js: the theme controller    *)
(* and the collapsible-sidebar controller of the dashboard page.           *)
(*                                                                         *)
(* A page visit runs the script once (the theme IIFE, then the sidebar     *)
(* IIFE); afterwards the only steps are the two DOM events the script      *)
(* listens to.  localStorage survives page loads, the DOM does not.        *)
(***************************************************************************)
EXTENDS Naturals, FiniteSets, Sequences, TLC

\* null: what getItem / getAttribute / getElementById return for "not there"
NULL == "null"

VARIABLES
    localStorage,   \* [theme, sidebarState]: the two keys of the origin's store
    dataTheme,      \* document.documentElement's data-theme attribute
    checkbox,       \* #theme-toggle-checkbox: [present, checked]
    sidebar,        \* #main-sidebar: [present, isCollapsed]
    container,      \* #main-container: [present, isCollapsed]
    toggleButton,   \* #sidebar-toggle-button: [present, ariaExpanded, ariaLabel]
    matchMedia,     \* what (prefers-color-scheme: dark) reports at load
    changeListener, \* toggleTheme is registered on the checkbox
    clickListener,  \* the click handler is registered on the button
    pc,             \* position of the script: "theme", "sidebar", "ready"
    last,           \* the step that produced this state
    wrote,          \* keys that step passed to localStorage.setItem
    themeRan,       \* toggleTheme has run since this page was loaded
    sidebarOp,      \* last of collapseSidebar/expandSidebar run since load
    beforeReload    \* what was rendered when this page was last reloaded

vars == <<localStorage, dataTheme, checkbox, sidebar, container, toggleButton,
          matchMedia, changeListener, clickListener, pc, last, wrote,
          themeRan, sidebarOp, beforeReload>>

themeVars   == <<dataTheme, checkbox, changeListener, themeRan>>
sidebarVars == <<sidebar, container, toggleButton, clickListener, sidebarOp>>

----------------------------------------------------------------------------
\* Environment: the markup of a page and the browser's colour-scheme query.

\* which of the four elements the page's markup contains
Markup == [checkbox : BOOLEAN, sidebar : BOOLEAN,
           container : BOOLEAN, toggleButton : BOOLEAN]

MediaQuery == {"unsupported", "light", "dark"}

\* the DOM as parsed from the markup, before the script has run
FreshCheckbox(p)     == [present |-> p, checked |-> FALSE]
FreshPanel(p)        == [present |-> p, isCollapsed |-> FALSE]
FreshToggleButton(p) == [present |-> p, ariaExpanded |-> NULL, ariaLabel |-> NULL]

FreshDOM(m) ==
    /\ dataTheme' = NULL
    /\ checkbox' = FreshCheckbox(m.checkbox)
    /\ sidebar' = FreshPanel(m.sidebar)
    /\ container' = FreshPanel(m.container)
    /\ toggleButton' = FreshToggleButton(m.toggleButton)
    /\ changeListener' = FALSE
    /\ clickListener' = FALSE
    /\ themeRan' = FALSE
    /\ sidebarOp' = "none"
    /\ pc' = "theme"
    /\ wrote' = {}

----------------------------------------------------------------------------
\* localStorage and JavaScript helpers

getItem(store, key) == store[key]

setItem(store, key, value) == [store EXCEPT ![key] = value]

\* JavaScript truthiness of a string-or-null
Truthy(v) == v # NULL /\ v # ""

----------------------------------------------------------------------------
\* Theme Management

\* getAttribute('data-theme') || 'light'
CurrentTheme(attr) == IF Truthy(attr) THEN attr ELSE "light"

NewThemeStuck(currentTheme) == "dark"
NewThemeTypo(currentTheme) == IF currentTheme = "dark" THEN "light" ELSE "Dark"
NewTheme(currentTheme) == IF currentTheme = "dark" THEN "light" ELSE "dark"

toggleThemeStale ==
    LET currentTheme == CurrentTheme(dataTheme)
        newTheme     == NewTheme(currentTheme)
    IN  /\ dataTheme' = newTheme
        /\ localStorage' = setItem(localStorage, "theme", currentTheme)
        /\ themeRan' = TRUE
        /\ wrote' = {"theme"}

toggleTheme ==
    LET currentTheme == CurrentTheme(dataTheme)
        newTheme     == NewTheme(currentTheme)
    IN  /\ dataTheme' = newTheme
        /\ localStorage' = setItem(localStorage, "theme", newTheme)
        /\ themeRan' = TRUE
        /\ wrote' = {"theme"}

\* window.matchMedia && window.matchMedia('(prefers-color-scheme: dark)').matches
PrefersDark(mm) == mm # "unsupported" /\ mm = "dark"

InitialDataThemeSystemFirst(theme, prefersDark, attr) ==
    IF prefersDark THEN "dark"
    ELSE IF Truthy(theme) THEN theme
    ELSE attr
InitialDataThemeNeedsCheckbox(theme, prefersDark, attr) ==
    IF ~checkbox.present THEN attr
    ELSE IF Truthy(theme) THEN theme
    ELSE IF prefersDark THEN "dark"
    ELSE attr
\* the data-theme attribute the "Set initial theme" block leaves behind
InitialDataTheme(theme, prefersDark, attr) ==
    IF Truthy(theme) THEN theme
    ELSE IF prefersDark THEN "dark"
    ELSE attr

InitialCheckboxStoredOnly(theme, prefersDark, cb) ==
    IF Truthy(theme) /\ theme = "dark" /\ cb.present
    THEN [cb EXCEPT !.checked = TRUE]
    ELSE cb
InitialCheckboxSystemOnly(theme, prefersDark, cb) ==
    IF ~Truthy(theme) /\ prefersDark /\ cb.present
    THEN [cb EXCEPT !.checked = TRUE]
    ELSE cb
\* the checkbox the "Set initial theme" block leaves behind
InitialCheckbox(theme, prefersDark, cb) ==
    IF Truthy(theme)
    THEN IF theme = "dark" /\ cb.present THEN [cb EXCEPT !.checked = TRUE] ELSE cb
    ELSE IF prefersDark /\ cb.present THEN [cb EXCEPT !.checked = TRUE] ELSE cb

ThemeInitPersistsFallback ==
    /\ pc = "theme"
    /\ LET theme       == getItem(localStorage, "theme")
           prefersDark == PrefersDark(matchMedia)
       IN  /\ dataTheme' = InitialDataTheme(theme, prefersDark, dataTheme)
           /\ checkbox' = InitialCheckbox(theme, prefersDark, checkbox)
           /\ IF ~Truthy(theme) /\ prefersDark
              THEN /\ localStorage' = setItem(localStorage, "theme", "dark")
                   /\ wrote' = {"theme"}
              ELSE /\ localStorage' = localStorage
                   /\ wrote' = {}
    /\ changeListener' = checkbox.present
    /\ pc' = "sidebar"
    /\ last' = "themeInit"
    /\ UNCHANGED <<matchMedia, themeRan, beforeReload>>
    /\ UNCHANGED sidebarVars

\* the theme IIFE, run once per page load
ThemeInit ==
    /\ pc = "theme"
    /\ LET theme       == getItem(localStorage, "theme")
           prefersDark == PrefersDark(matchMedia)
       IN  /\ dataTheme' = InitialDataTheme(theme, prefersDark, dataTheme)
           /\ checkbox' = InitialCheckbox(theme, prefersDark, checkbox)
    /\ changeListener' = checkbox.present
    /\ pc' = "sidebar"
    /\ last' = "themeInit"
    /\ wrote' = {}
    /\ UNCHANGED <<localStorage, matchMedia, themeRan, beforeReload>>
    /\ UNCHANGED sidebarVars

\* a change event on the checkbox: the browser flips it, then runs the listeners
Change ==
    /\ pc = "ready"
    /\ checkbox.present
    /\ checkbox' = [checkbox EXCEPT !.checked = ~checkbox.checked]
    /\ IF changeListener
       THEN toggleTheme
       ELSE /\ wrote' = {}
            /\ UNCHANGED <<dataTheme, localStorage, themeRan>>
    /\ last' = "change"
    /\ UNCHANGED <<matchMedia, changeListener, pc, beforeReload>>
    /\ UNCHANGED sidebarVars

----------------------------------------------------------------------------
\* Collapsible Sidebar

HandlesPresentButtonOnly == toggleButton.present
\* the negation of the early-return test
HandlesPresent == sidebar.present /\ container.present /\ toggleButton.present

collapseSidebarSkipsContainer ==
    /\ sidebar' = [sidebar EXCEPT !.isCollapsed = TRUE]
    /\ container' = container
    /\ toggleButton' = [toggleButton EXCEPT !.ariaExpanded = "false",
                                            !.ariaLabel = "Expand sidebar"]
    /\ localStorage' = setItem(localStorage, "sidebarState", "collapsed")
    /\ sidebarOp' = "collapse"
    /\ wrote' = {"sidebarState"}

collapseSidebarWrongKey ==
    /\ sidebar' = [sidebar EXCEPT !.isCollapsed = TRUE]
    /\ container' = [container EXCEPT !.isCollapsed = TRUE]
    /\ toggleButton' = [toggleButton EXCEPT !.ariaExpanded = "false",
                                            !.ariaLabel = "Expand sidebar"]
    /\ localStorage' = setItem(localStorage, "theme", "collapsed")
    /\ sidebarOp' = "collapse"
    /\ wrote' = {"theme"}

collapseSidebar ==
    /\ sidebar' = [sidebar EXCEPT !.isCollapsed = TRUE]
    /\ container' = [container EXCEPT !.isCollapsed = TRUE]
    /\ toggleButton' = [toggleButton EXCEPT !.ariaExpanded = "false",
                                            !.ariaLabel = "Expand sidebar"]
    /\ localStorage' = setItem(localStorage, "sidebarState", "collapsed")
    /\ sidebarOp' = "collapse"
    /\ wrote' = {"sidebarState"}

expandSidebarKeepsContainer ==
    /\ sidebar' = [sidebar EXCEPT !.isCollapsed = FALSE]
    /\ container' = container
    /\ toggleButton' = [toggleButton EXCEPT !.ariaExpanded = "true",
                                            !.ariaLabel = "Collapse sidebar"]
    /\ localStorage' = setItem(localStorage, "sidebarState", "expanded")
    /\ sidebarOp' = "expand"
    /\ wrote' = {"sidebarState"}

expandSidebarStaleLabel ==
    /\ sidebar' = [sidebar EXCEPT !.isCollapsed = FALSE]
    /\ container' = [container EXCEPT !.isCollapsed = FALSE]
    /\ toggleButton' = [toggleButton EXCEPT !.ariaExpanded = "true",
                                            !.ariaLabel = "Expand sidebar"]
    /\ localStorage' = setItem(localStorage, "sidebarState", "expanded")
    /\ sidebarOp' = "expand"
    /\ wrote' = {"sidebarState"}

expandSidebar ==
    /\ sidebar' = [sidebar EXCEPT !.isCollapsed = FALSE]
    /\ container' = [container EXCEPT !.isCollapsed = FALSE]
    /\ toggleButton' = [toggleButton EXCEPT !.ariaExpanded = "true",
                                            !.ariaLabel = "Collapse sidebar"]
    /\ localStorage' = setItem(localStorage, "sidebarState", "expanded")
    /\ sidebarOp' = "expand"
    /\ wrote' = {"sidebarState"}

InitiallyCollapsedUnlessExpanded(sidebarState) == sidebarState # "expanded"
InitiallyCollapsedNever(sidebarState) == FALSE
\* the test of "Set initial state from localStorage"
InitiallyCollapsed(sidebarState) == sidebarState = "collapsed"

\* the sidebar IIFE, run once per page load after the theme IIFE
SidebarInit ==
    /\ pc = "sidebar"
    /\ IF ~HandlesPresent
       THEN /\ wrote' = {}
            /\ UNCHANGED <<localStorage, sidebar, container, toggleButton,
                           clickListener, sidebarOp>>
       ELSE /\ LET sidebarState == getItem(localStorage, "sidebarState")
               IN  IF InitiallyCollapsed(sidebarState)
                   THEN collapseSidebar
                   ELSE /\ wrote' = {}
                        /\ UNCHANGED <<localStorage, sidebar, container,
                                       toggleButton, sidebarOp>>
            /\ clickListener' = TRUE
    /\ pc' = "ready"
    /\ last' = "sidebarInit"
    /\ UNCHANGED <<matchMedia, beforeReload>>
    /\ UNCHANGED themeVars

\* a click event on the button: runs the listener if one was registered
Click ==
    /\ pc = "ready"
    /\ toggleButton.present
    /\ IF clickListener
       THEN IF sidebar.isCollapsed THEN expandSidebar ELSE collapseSidebar
       ELSE /\ wrote' = {}
            /\ UNCHANGED <<localStorage, sidebar, container, toggleButton,
                           sidebarOp>>
    /\ last' = "click"
    /\ UNCHANGED <<matchMedia, clickListener, pc, beforeReload>>
    /\ UNCHANGED themeVars

----------------------------------------------------------------------------
\* Page loads

\* the page has not been reloaded since the visitor came to it
NoReload ==
    [taken |-> FALSE, dataTheme |-> NULL,
     sidebarCollapsed |-> FALSE, containerCollapsed |-> FALSE]

\* the theme and the sidebar state the page shows
RenderedState ==
    [taken |-> TRUE, dataTheme |-> dataTheme,
     sidebarCollapsed |-> sidebar.isCollapsed,
     containerCollapsed |-> container.isCollapsed]

\* the same page is loaded again; the colour-scheme preference may have changed
Reload ==
    /\ pc = "ready"
    /\ beforeReload' = RenderedState
    /\ FreshDOM([checkbox |-> checkbox.present, sidebar |-> sidebar.present,
                 container |-> container.present,
                 toggleButton |-> toggleButton.present])
    /\ \E mm \in MediaQuery : matchMedia' = mm
    /\ last' = "reload"
    /\ UNCHANGED localStorage

\* another page of the site, with its own markup, is loaded
Navigate ==
    /\ pc = "ready"
    /\ beforeReload' = NoReload
    /\ \E m \in Markup : FreshDOM(m)
    /\ \E mm \in MediaQuery : matchMedia' = mm
    /\ last' = "navigate"
    /\ UNCHANGED localStorage

\* first visit: nothing stored yet, the page parsed, the script about to run
Init ==
    /\ localStorage = [theme |-> NULL, sidebarState |-> NULL]
    /\ dataTheme = NULL
    /\ \E m \in Markup :
          /\ checkbox = FreshCheckbox(m.checkbox)
          /\ sidebar = FreshPanel(m.sidebar)
          /\ container = FreshPanel(m.container)
          /\ toggleButton = FreshToggleButton(m.toggleButton)
    /\ matchMedia \in MediaQuery
    /\ changeListener = FALSE
    /\ clickListener = FALSE
    /\ pc = "theme"
    /\ last = "navigate"
    /\ wrote = {}
    /\ themeRan = FALSE
    /\ sidebarOp = "none"
    /\ beforeReload = NoReload

Next ==
    \/ ThemeInit
    \/ SidebarInit
    \/ Change
    \/ Click
    \/ Reload
    \/ Navigate

Spec == Init /\ [][Next]_vars

----------------------------------------------------------------------------
\* Properties

\* C1: on a loaded page with all handles present, after a change or click
\* event has been handled the persisted values match what is rendered: the
\* theme key, once written, equals the data-theme attribute, the
\* sidebarState key, once written, is "collapsed" exactly when the sidebar
\* carries is-collapsed, and the handler of each event has written its key.
C1_PersistedMatchesRendered ==
    (pc = "ready" /\ checkbox.present
        /\ sidebar.present /\ container.present /\ toggleButton.present
        /\ last \in {"change", "click"}) =>
      /\ themeRan => localStorage.theme # NULL
      /\ localStorage.theme # NULL => localStorage.theme = dataTheme
      /\ last = "click" => localStorage.sidebarState # NULL
      /\ localStorage.sidebarState # NULL =>
            localStorage.sidebarState =
               (IF sidebar.isCollapsed THEN "collapsed" ELSE "expanded")

C1_Witness ==
    /\ pc = "ready" /\ checkbox.present
    /\ sidebar.present /\ container.present /\ toggleButton.present
    /\ last = "click" /\ themeRan
    /\ localStorage.theme = "light" /\ dataTheme = "light"
    /\ sidebar.isCollapsed /\ localStorage.sidebarState = "collapsed"

\* C2: a change event that finds the rendered theme light (or unset) leaves
\* it dark, one that finds it dark leaves it light, and in both cases the
\* theme key then equals the new data-theme attribute.
C2_ToggleThemeFlips ==
    [][last' = "change" =>
         /\ dataTheme \in {NULL, "light"} => dataTheme' = "dark"
         /\ dataTheme = "dark" => dataTheme' = "light"
         /\ localStorage'.theme = dataTheme']_vars

C2_Witness ==
    /\ last = "change" /\ themeRan
    /\ dataTheme = "light" /\ localStorage.theme = "light"

\* C3: until the first toggle, the rendered theme of a loaded page is the
\* stored preference when there is one, else dark when the system reports
\* dark, else unset (light).
C3_ThemePrecedence ==
    (pc # "theme" /\ ~themeRan) =>
        dataTheme =
           (CASE localStorage.theme = "light" -> "light"
              [] localStorage.theme = "dark"  -> "dark"
              [] localStorage.theme = NULL /\ matchMedia = "dark" -> "dark"
              [] OTHER -> NULL)

C3_Witness ==
    /\ last = "themeInit"
    /\ localStorage.theme = "light" /\ matchMedia = "dark"
    /\ dataTheme = "light"

\* C4: with nothing stored under theme and the system reporting dark, a
\* loaded page has data-theme "dark" and its checkbox, if any, is checked.
C4_SystemDarkOnLoad ==
    (pc # "theme" /\ ~themeRan
        /\ localStorage.theme = NULL /\ matchMedia = "dark") =>
      /\ dataTheme = "dark"
      /\ checkbox.present => checkbox.checked

C4_Witness ==
    /\ last = "themeInit"
    /\ localStorage.theme = NULL /\ matchMedia = "dark"
    /\ checkbox.present /\ checkbox.checked /\ dataTheme = "dark"

\* C5: with all three handles present, a click runs expandSidebar when the
\* sidebar is collapsed and collapseSidebar otherwise; afterwards the sidebar
\* is in the other state and the sidebar marker, the container marker and
\* the sidebarState key all agree with it.
C5_ClickTogglesSidebar ==
    [][(last' = "click"
          /\ sidebar.present /\ container.present /\ toggleButton.present) =>
         /\ sidebarOp' = (IF sidebar.isCollapsed THEN "expand" ELSE "collapse")
         /\ sidebar'.isCollapsed = ~sidebar.isCollapsed
         /\ container'.isCollapsed = sidebar'.isCollapsed
         /\ localStorage'.sidebarState =
               (IF sidebar'.isCollapsed THEN "collapsed" ELSE "expanded")]_vars

C5_Witness ==
    /\ last = "click" /\ sidebarOp = "expand"
    /\ sidebar.present /\ container.present /\ toggleButton.present
    /\ ~sidebar.isCollapsed /\ ~container.isCollapsed
    /\ localStorage.sidebarState = "expanded"

\* C6: on a page that lacks any of the three handles the sidebar script is
\* inert: once loaded no click listener is registered, no element carries
\* is-collapsed, the button's aria attributes are as the markup left them and
\* neither sidebar operation has run; and no step taken on such a page
\* (script or event) writes or changes the sidebarState key or changes a
\* marker or a button attribute.
C6_SidebarInert ==
    /\ []((pc = "ready"
            /\ ~(sidebar.present /\ container.present /\ toggleButton.present)) =>
              /\ ~clickListener
              /\ sidebarOp = "none"
              /\ ~sidebar.isCollapsed /\ ~container.isCollapsed
              /\ toggleButton.ariaExpanded = NULL
              /\ toggleButton.ariaLabel = NULL)
    /\ [][~(sidebar.present /\ container.present /\ toggleButton.present) =>
              /\ "sidebarState" \notin wrote'
              /\ localStorage'.sidebarState = localStorage.sidebarState
              /\ sidebar'.isCollapsed = sidebar.isCollapsed
              /\ container'.isCollapsed = container.isCollapsed
              /\ toggleButton'.ariaExpanded = toggleButton.ariaExpanded
              /\ toggleButton'.ariaLabel = toggleButton.ariaLabel]_vars

C6_Witness ==
    /\ pc = "ready" /\ last = "click"
    /\ sidebar.present /\ ~container.present /\ toggleButton.present
    /\ localStorage.sidebarState = "collapsed"
    /\ ~sidebar.isCollapsed /\ ~clickListener

\* C7: with all three handles present, the sidebar script finding
\* "collapsed" under sidebarState marks the sidebar and the container
\* is-collapsed, sets aria-expanded "false" and the label "Expand sidebar";
\* finding "expanded" or nothing it leaves sidebar, container and button as
\* the markup had them.
C7_SidebarInitialState ==
    [][(last' = "sidebarInit"
          /\ sidebar.present /\ container.present /\ toggleButton.present) =>
         IF localStorage.sidebarState = "collapsed"
         THEN /\ sidebar'.isCollapsed /\ container'.isCollapsed
              /\ toggleButton'.ariaExpanded = "false"
              /\ toggleButton'.ariaLabel = "Expand sidebar"
         ELSE /\ sidebar' = sidebar /\ ~sidebar'.isCollapsed
              /\ container' = container /\ ~container'.isCollapsed
              /\ toggleButton' = toggleButton
              /\ toggleButton'.ariaExpanded = NULL
              /\ toggleButton'.ariaLabel = NULL]_vars

C7_Witness ==
    /\ last = "sidebarInit"
    /\ sidebar.present /\ container.present /\ toggleButton.present
    /\ localStorage.sidebarState = "collapsed"
    /\ sidebar.isCollapsed /\ container.isCollapsed
    /\ toggleButton.ariaExpanded = "false"
    /\ toggleButton.ariaLabel = "Expand sidebar"

\* C8 as stated: on every loaded page, whatever handles it has, a present
\* theme key equals the data-theme attribute and a present sidebarState key
\* agrees with the markers of the sidebar panel and the layout container.
C8_RenderedNeverDiverges ==
    pc = "ready" =>
      /\ localStorage.theme # NULL => dataTheme = localStorage.theme
      /\ localStorage.sidebarState # NULL =>
            /\ sidebar.present =>
                 (sidebar.isCollapsed <=> localStorage.sidebarState = "collapsed")
            /\ container.present =>
                 (container.isCollapsed <=> localStorage.sidebarState = "collapsed")

\* C8 amended: on every loaded page, whatever handles it has, a present theme
\* key equals the data-theme attribute; and on every loaded page that has all
\* three sidebar handles a present sidebarState key agrees with the markers
\* of the sidebar panel and the layout container.
C8_RenderedNeverDivergesWithHandles ==
    pc = "ready" =>
      /\ localStorage.theme # NULL => dataTheme = localStorage.theme
      /\ (localStorage.sidebarState # NULL
            /\ sidebar.present /\ container.present /\ toggleButton.present) =>
            /\ sidebar.isCollapsed <=> localStorage.sidebarState = "collapsed"
            /\ container.isCollapsed <=> localStorage.sidebarState = "collapsed"

C8_Witness ==
    /\ pc = "ready" /\ last = "sidebarInit" /\ ~checkbox.present
    /\ sidebar.present /\ container.present /\ toggleButton.present
    /\ localStorage.theme = "dark" /\ dataTheme = "dark"
    /\ localStorage.sidebarState = "collapsed"
    /\ sidebar.isCollapsed /\ container.isCollapsed

\* C9: while nothing is stored under theme, no step other than a checkbox
\* change event writes the theme key (in particular the theme script does
\* not, whatever the system preference), so the key stays absent; a change
\* event writes it and leaves it present.
C9_SystemFallbackNotPersisted ==
    [][localStorage.theme = NULL =>
         IF last' = "change"
         THEN "theme" \in wrote' /\ localStorage'.theme # NULL
         ELSE "theme" \notin wrote' /\ localStorage'.theme = NULL]_vars

C9_Witness ==
    /\ pc = "ready" /\ last = "sidebarInit"
    /\ localStorage.theme = NULL /\ matchMedia = "dark"
    /\ dataTheme = "dark" /\ checkbox.present /\ changeListener

\* C10: the theme key changes value only in a change-event step and the
\* sidebarState key only in a click-event step, so neither the scripts run
\* at page load nor the load itself create a key or change its value; and a
\* key that is present is never removed.
C10_PreferenceLifecycle ==
    [][/\ localStorage'.theme # localStorage.theme => last' = "change"
       /\ localStorage'.sidebarState # localStorage.sidebarState =>
             last' = "click"
       /\ localStorage.theme # NULL => localStorage'.theme # NULL
       /\ localStorage.sidebarState # NULL =>
             localStorage'.sidebarState # NULL]_vars

C10_Witness ==
    /\ last = "sidebarInit" /\ sidebarOp = "collapse"
    /\ wrote = {"sidebarState"}
    /\ localStorage.sidebarState = "collapsed"
    /\ localStorage.theme = "light"

\* C11: on a page without the theme checkbox the theme script still applies
\* the stored preference, else the system preference, to data-theme, exactly
\* as C3 states for any page; it registers no listener, toggleTheme never
\* runs, and no event on that page changes data-theme or writes or changes
\* the theme key.
C11_NoCheckboxThemeInert ==
    /\ []((pc # "theme" /\ ~checkbox.present) =>
            /\ ~changeListener /\ ~themeRan
            /\ dataTheme =
                 (CASE localStorage.theme = "light" -> "light"
                    [] localStorage.theme = "dark"  -> "dark"
                    [] localStorage.theme = NULL /\ matchMedia = "dark" -> "dark"
                    [] OTHER -> NULL))
    /\ [][~checkbox.present =>
            /\ "theme" \notin wrote'
            /\ localStorage'.theme = localStorage.theme
            /\ (pc = "ready" /\ pc' = "ready") => dataTheme' = dataTheme]_vars

C11_Witness ==
    /\ pc = "ready" /\ last = "click" /\ ~checkbox.present
    /\ localStorage.theme = "dark" /\ matchMedia = "light"
    /\ dataTheme = "dark" /\ ~changeListener

\* C12: the two controllers are independent.  A step of the theme controller
\* (its script or a change event) leaves the sidebar, the container, the
\* button, the click listener and the sidebarState key unchanged; a step of
\* the sidebar controller (its script or a click event) leaves data-theme,
\* the checkbox, the change listener and the theme key unchanged.  An event
\* is possible exactly when its own element is on the loaded page, and what
\* it does to its own controller's state is determined by that state alone,
\* so the order in which theme and sidebar events are interleaved does not
\* matter.
C12_ControllersIndependent ==
    /\ [](pc = "ready" =>
            /\ ENABLED Change <=> checkbox.present
            /\ ENABLED Click <=> toggleButton.present)
    /\ [][/\ last' \in {"themeInit", "change"} =>
               /\ sidebar' = sidebar /\ container' = container
               /\ toggleButton' = toggleButton
               /\ clickListener' = clickListener
               /\ localStorage'.sidebarState = localStorage.sidebarState
               /\ "sidebarState" \notin wrote'
          /\ last' \in {"sidebarInit", "click"} =>
               /\ dataTheme' = dataTheme /\ checkbox' = checkbox
               /\ changeListener' = changeListener
               /\ localStorage'.theme = localStorage.theme
               /\ "theme" \notin wrote'
          /\ last' = "change" =>
               /\ dataTheme' = (IF dataTheme = "dark" THEN "light" ELSE "dark")
               /\ localStorage'.theme = dataTheme'
               /\ checkbox'.checked = ~checkbox.checked
          /\ last' = "click" =>
               IF sidebar.present /\ container.present /\ toggleButton.present
               THEN /\ sidebar'.isCollapsed = ~sidebar.isCollapsed
                    /\ container'.isCollapsed = ~sidebar.isCollapsed
                    /\ toggleButton'.ariaExpanded =
                          (IF sidebar.isCollapsed THEN "true" ELSE "false")
                    /\ localStorage'.sidebarState =
                          (IF sidebar.isCollapsed THEN "expanded" ELSE "collapsed")
               ELSE /\ sidebar' = sidebar /\ container' = container
                    /\ toggleButton' = toggleButton
                    /\ localStorage'.sidebarState = localStorage.sidebarState]_vars

C12_Witness ==
    /\ pc = "ready" /\ last = "click" /\ themeRan /\ sidebarOp = "expand"
    /\ checkbox.present /\ checkbox.checked /\ dataTheme = "dark"
    /\ localStorage.theme = "dark" /\ localStorage.sidebarState = "expanded"

\* C13: persisted values stay in their domains.  In every reachable state
\* the theme key is absent, "light" or "dark", the sidebarState key is
\* absent, "collapsed" or "expanded", data-theme is unset, "light" or
\* "dark", and a key the last step wrote holds a value of its domain.
C13_ValuesInDomain ==
    /\ localStorage.theme \in {NULL, "light", "dark"}
    /\ localStorage.sidebarState \in {NULL, "collapsed", "expanded"}
    /\ dataTheme \in {NULL, "light", "dark"}
    /\ "theme" \in wrote => localStorage.theme \in {"light", "dark"}
    /\ "sidebarState" \in wrote =>
          localStorage.sidebarState \in {"collapsed", "expanded"}

C13_Witness ==
    /\ last = "change" /\ wrote = {"theme"}
    /\ localStorage.theme = "dark" /\ dataTheme = "dark"
    /\ localStorage.sidebarState = "expanded"

\* C14: the sidebar's projections agree.  In every reachable state the
\* sidebar and the container both carry is-collapsed or both lack it; and
\* once collapseSidebar or expandSidebar has run on the page, the button has
\* aria-expanded "false" and label "Expand sidebar" exactly when the marker
\* is present, aria-expanded "true" and label "Collapse sidebar" exactly
\* when it is absent.
C14_SidebarProjectionsAgree ==
    /\ sidebar.isCollapsed <=> container.isCollapsed
    /\ sidebarOp # "none" =>
          IF sidebar.isCollapsed
          THEN /\ toggleButton.ariaExpanded = "false"
               /\ toggleButton.ariaLabel = "Expand sidebar"
          ELSE /\ toggleButton.ariaExpanded = "true"
               /\ toggleButton.ariaLabel = "Collapse sidebar"

C14_Witness ==
    /\ sidebarOp = "expand" /\ last = "click"
    /\ sidebar.present /\ container.present /\ toggleButton.present
    /\ ~sidebar.isCollapsed /\ ~container.isCollapsed
    /\ toggleButton.ariaExpanded = "true"
    /\ toggleButton.ariaLabel = "Collapse sidebar"

\* C15: reload round trip.  When a reload of the page has completed (both
\* scripts have run on the fresh DOM), a theme key that a toggle has created
\* makes data-theme what it was just before the reload, whatever the system
\* preference now reports, and a sidebarState key that a toggle has created
\* makes the sidebar and container markers what they were just before the
\* reload.
C15_ReloadRoundTrip ==
    (last = "sidebarInit" /\ beforeReload.taken) =>
      /\ localStorage.theme # NULL => dataTheme = beforeReload.dataTheme
      /\ localStorage.sidebarState # NULL =>
            /\ sidebar.isCollapsed = beforeReload.sidebarCollapsed
            /\ container.isCollapsed = beforeReload.containerCollapsed

C15_Witness ==
    /\ last = "sidebarInit" /\ beforeReload.taken
    /\ sidebar.present /\ container.present /\ toggleButton.present
    /\ localStorage.theme = "light" /\ matchMedia = "dark"
    /\ dataTheme = "light" /\ beforeReload.dataTheme = "light"
    /\ localStorage.sidebarState = "collapsed"
    /\ sidebar.isCollapsed /\ beforeReload.sidebarCollapsed

\* C16: on a page with the theme checkbox, once the theme script has run
\* and after any number of change events, the checkbox is checked exactly
\* when data-theme is "dark".
C16_CheckboxInSync ==
    (pc # "theme" /\ checkbox.present) =>
        (checkbox.checked <=> dataTheme = "dark")

C16_Witness ==
    /\ last = "change" /\ themeRan /\ checkbox.present
    /\ checkbox.checked /\ dataTheme = "dark"
    /\ localStorage.theme = "dark"

====
